---- MODULE Spec2Model ----
(***************************************************************************)
(* Layout management of a DXF drawing (ezdxf/modern/layouts.py).           *)
(*                                                                         *)
(* The state is the Layouts object (_layouts and the DXF layout            *)
(* management table) together with the sections of the drawing it works    *)
(* on: the LAYOUT objects, the BLOCK_RECORD table, the BLOCKS section, the *)
(* entity spaces of the blocks and the entity database.                    *)
(***************************************************************************)
EXTENDS Integers, Sequences, FiniteSets, TLC

VARIABLES
    layouts,        \* Layouts._layouts: name -> Layout (_layout_handle, _block_record_handle)
    table,          \* Layouts._dxf_layout_management_table: name -> layout handle
    objects,        \* LAYOUT objects: handle -> [name, taborder, block_record]
    block_records,  \* BLOCK_RECORD table: handle -> [name, layout]
    blocks,         \* BLOCKS section: block name -> block record handle (block.dxf.owner)
    espace,         \* entity space of a block: block record handle -> set of entity handles
    entitydb,       \* graphic entities: handle -> [owner, paperspace]
    nexthandle,     \* next handle of the drawing's handle generator
    last,           \* the last call and its outcome
    scenario,       \* progress of a create / set_active / delete sequence on one name
    paper,          \* one Layout with its plot settings and viewports (paper_setup)
    cache,          \* one bounding box Cache (ezdxf/bbox.py)
    render,         \* one RenderEngine with its MLEADER (ezdxf/render/mleader.py)
    style,          \* one MLeaderStyleOverride and its last lookup
    curves          \* one call of a function of ezdxf/math/curvetools.py

vars == <<layouts, table, objects, block_records, blocks, espace, entitydb,
          nexthandle, last, scenario, paper, cache, render, style, curves>>

----------------------------------------------------------------------------
(* Bounds *)

MaxHandle == 9
MaxEntities == 1

(* Program constants *)

PAPER_SPACE == "*Paper_Space"
TMP_PAPER_SPACE_NAME == "*Paper_Space999999"
MODEL_SPACE == "*Model_Space"

(* Inputs *)

PaperNames == {"A", "Layout1", "Sheet1"}
Names == PaperNames \cup {"Model"}
\* dxfattribs of new(): <<>> is "no taborder given", <<t>> overrides it
TabOrderAttribs == {<<>>, <<-1>>}

NoHandle == 0          \* None, where a handle is expected
NoName == ""           \* None, where a name is expected

\* value of the variable of an object that a specification does not use
Idle == "idle"

----------------------------------------------------------------------------
(* Helpers on finite maps *)

Put(f, k, v) == [x \in (DOMAIN f) \cup {k} |-> IF x = k THEN v ELSE f[x]]
Drop(f, k) == [x \in (DOMAIN f) \ {k} |-> f[x]]
Empty == [x \in {} |-> 0]

\* Python's order of the layout names used here (str comparison, ASCII)
NameRank(n) ==
    CASE n = "A" -> 1
      [] n = "Layout1" -> 2
      [] n = "Model" -> 3
      [] n = "Sheet1" -> 4

\* "*Paper_Space%d" % count
block_name(count) ==
    <<"*Paper_Space0", "*Paper_Space1", "*Paper_Space2", "*Paper_Space3",
      "*Paper_Space4", "*Paper_Space5", "*Paper_Space6", "*Paper_Space7">>[count + 1]

\* str.upper() on the block names that occur
upper(b) ==
    CASE b = "*Paper_Space" -> "*PAPER_SPACE"
      [] b = "*Model_Space" -> "*MODEL_SPACE"
      [] b = "*Paper_Space999999" -> "*PAPER_SPACE999999"
      [] b = "*Paper_Space0" -> "*PAPER_SPACE0"
      [] b = "*Paper_Space1" -> "*PAPER_SPACE1"
      [] b = "*Paper_Space2" -> "*PAPER_SPACE2"
      [] b = "*Paper_Space3" -> "*PAPER_SPACE3"
      [] b = "*Paper_Space4" -> "*PAPER_SPACE4"
      [] b = "*Paper_Space5" -> "*PAPER_SPACE5"
      [] b = "*Paper_Space6" -> "*PAPER_SPACE6"
      [] b = "*Paper_Space7" -> "*PAPER_SPACE7"

----------------------------------------------------------------------------
(* The state as one value, so that a method can call another *)

State ==
    [layouts |-> layouts, table |-> table, objects |-> objects,
     block_records |-> block_records, blocks |-> blocks, espace |-> espace,
     entitydb |-> entitydb, nexthandle |-> nexthandle, err |-> "none"]

Fail(s, e) == [s EXCEPT !.err = e]

----------------------------------------------------------------------------
(* Layout properties *)

layout_key(l) == l.block_record_handle

block_record_name(s, l) == s.block_records[l.block_record_handle].name

taborder(s, l) == s.objects[l.layout_handle].taborder

layout_name(s, l) == s.objects[l.layout_handle].name

----------------------------------------------------------------------------
(* Collaborators: the drawing and its BLOCKS section *)

\* Drawing.get_active_layout_key: handle of the block record '*Paper_Space', or None
get_active_layout_key(s) ==
    IF \E h \in DOMAIN s.block_records : s.block_records[h].name = PAPER_SPACE
    THEN CHOOSE h \in DOMAIN s.block_records : s.block_records[h].name = PAPER_SPACE
    ELSE NoHandle

\* BlocksSection.rename_block: renames the block and its block record;
\* a block that does not exist cannot be renamed
rename_block(s, old_name, new_name) ==
    IF s.err # "none" THEN s
    ELSE IF old_name \notin DOMAIN s.blocks THEN Fail(s, "AttributeError")
    ELSE LET h == s.blocks[old_name] IN
         [s EXCEPT !.blocks = Put(Drop(s.blocks, old_name), new_name, h),
                   !.block_records = [s.block_records EXCEPT ![h].name = new_name]]

\* BlocksSection.new_layout_block: a new block '*Paper_SpaceN' with its block
\* record, N the smallest count whose name is free
FreeCount(s) ==
    CHOOSE c \in 0..7 : /\ block_name(c) \notin DOMAIN s.blocks
                        /\ \A d \in 0..(c - 1) : block_name(d) \in DOMAIN s.blocks

new_layout_block(s) ==
    LET h == s.nexthandle
        nm == block_name(FreeCount(s))
    IN [s EXCEPT !.nexthandle = h + 1,
                 !.block_records = Put(s.block_records, h, [name |-> nm, layout |-> NoHandle]),
                 !.blocks = Put(s.blocks, nm, h),
                 !.espace = Put(s.espace, h, {})]

\* Layout.delete_all_entities: removes the entities of the layout from its
\* entity space and from the entity database
delete_all_entities(s, l) ==
    LET k == l.block_record_handle IN
    [s EXCEPT !.entitydb = [e \in (DOMAIN s.entitydb) \ s.espace[k] |-> s.entitydb[e]],
              !.espace = [s.espace EXCEPT ![k] = {}]]

\* BlocksSection.delete_block -> BlockLayout.destroy: removes the block record
\* and the block with its entity space
delete_block(s, name) ==
    LET h == s.blocks[name] IN
    [s EXCEPT !.block_records = Drop(s.block_records, h),
              !.blocks = Drop(s.blocks, name),
              !.espace = Drop(s.espace, h)]

----------------------------------------------------------------------------
(* Layout construction *)

\* Layout.__init__: line 207
paperspace_flag(name) == IF name = "Model" THEN 0 ELSE 1

\* _repair_owner_tags() that repairs nothing
repair_owner_tags_skipped(s, l) == s

\* Layout._repair_owner_tags: every entity of the entity space of the layout
\* gets the layout key as owner and the paperspace flag of the layout
repair_owner_tags(s, l) ==
    LET key == layout_key(l)
        paper_space == paperspace_flag(layout_name(s, l))
    IN [s EXCEPT !.entitydb =
          [e \in DOMAIN s.entitydb |->
              IF e \in s.espace[l.block_record_handle]
              THEN [owner |-> IF s.entitydb[e].owner # key
                              THEN key ELSE s.entitydb[e].owner,
                    paperspace |-> IF s.entitydb[e].paperspace # paper_space
                                   THEN paper_space ELSE s.entitydb[e].paperspace]
              ELSE s.entitydb[e]]]

\* Layouts._setup: a Layout for every entry of the layout management table
RECURSIVE setup(_, _)
setup(s, names) ==
    IF names = {} THEN s
    ELSE LET name == CHOOSE n \in names : TRUE
             l == [layout_handle |-> s.table[name],
                   block_record_handle |-> s.objects[s.table[name]].block_record]
         IN setup(repair_owner_tags([s EXCEPT !.layouts = Put(s.layouts, name, l)], l),
                  names \ {name})

----------------------------------------------------------------------------
(* Layouts *)

\* Layouts.names_in_taborder: the names sorted by (taborder, name)
Before(s, a, b) ==
    \/ taborder(s, s.layouts[a]) < taborder(s, s.layouts[b])
    \/ /\ taborder(s, s.layouts[a]) = taborder(s, s.layouts[b])
       /\ NameRank(a) < NameRank(b)

RECURSIVE sorted(_, _)
sorted(s, ns) ==
    IF ns = {} THEN <<>>
    ELSE LET m == CHOOSE a \in ns : \A b \in ns \ {a} : Before(s, a, b)
         IN <<m>> \o sorted(s, ns \ {m})

names_in_taborder(s) == sorted(s, DOMAIN s.layouts)

\* Layouts.get: [err, ret]; name None is the second entry of names_in_taborder()
get(s, name) ==
    IF name = NoName
    THEN IF Len(names_in_taborder(s)) < 2
         THEN [err |-> "IndexError", ret |-> NoName]
         ELSE [err |-> "none", ret |-> names_in_taborder(s)[2]]
    ELSE IF name \in DOMAIN s.layouts
         THEN [err |-> "none", ret |-> name]
         ELSE [err |-> "KeyError", ret |-> NoName]

\* Layouts.active_layout: [err, ret]
active_layout(s) ==
    LET act == {n \in DOMAIN s.layouts :
                    upper(block_record_name(s, s.layouts[n])) = "*PAPER_SPACE"}
    IN IF act = {}
       THEN [err |-> "DXFInternalEzdxfError", ret |-> NoName]
       ELSE [err |-> "none", ret |-> CHOOSE n \in act : TRUE]

\* new() without the check of line 92
new_name_exists_unchecked(s, name) == FALSE

\* Layouts.new: line 92, the name has to be free
new_name_exists(s, name) == name \in DOMAIN s.layouts

\* Layouts.new: create_dxf_layout_entity, dxfattribs.setdefault('taborder', ...)
new_taborder(s, attribs) ==
    IF attribs = <<>> THEN Cardinality(DOMAIN s.layouts) + 1 ELSE attribs[1]

\* Layouts.new
new(s, name, attribs) ==
    IF new_name_exists(s, name) THEN Fail(s, "DXFValueError")
    ELSE LET s1 == new_layout_block(s)
             block_record_handle == s.nexthandle
             layout_handle == s1.nexthandle
         IN [s1 EXCEPT
               !.nexthandle = layout_handle + 1,
               !.objects = Put(s1.objects, layout_handle,
                               [name |-> name,
                                taborder |-> new_taborder(s, attribs),
                                block_record |-> block_record_handle]),
               !.block_records = [s1.block_records EXCEPT
                                     ![block_record_handle].layout = layout_handle],
               !.table = Put(s1.table, name, layout_handle),
               !.layouts = Put(s1.layouts, name,
                               [layout_handle |-> layout_handle,
                                block_record_handle |-> block_record_handle])]

\* set_active_layout() without the check of line 119
set_active_is_model_unchecked(name) == FALSE

\* Layouts.set_active_layout: line 119, 'Model' is reserved
set_active_is_model(name) == name = "Model"

\* set_active_layout() without the early return of line 124
already_active_ignored(s, l) == FALSE

\* Layouts.set_active_layout: line 123, the layout is already the active one
already_active(s, l) == get_active_layout_key(s) = layout_key(l)

\* Layouts.set_active_layout
set_active_layout(s, name) ==
    IF set_active_is_model(name) THEN Fail(s, "DXFValueError")
    ELSE IF get(s, name).err # "none" THEN Fail(s, get(s, name).err)
    ELSE LET new_active_layout == s.layouts[get(s, name).ret] IN
         IF already_active(s, new_active_layout) THEN s
         ELSE LET new_active_paper_space_name == block_record_name(s, new_active_layout)
                  s1 == rename_block(s, PAPER_SPACE, TMP_PAPER_SPACE_NAME)
                  s2 == rename_block(s1, new_active_paper_space_name, PAPER_SPACE)
              IN rename_block(s2, TMP_PAPER_SPACE_NAME, new_active_paper_space_name)

\* destroy() that leaves the block and its block record behind
destroy_keeps_block(s, l) ==
    LET s1 == delete_all_entities(s, l)
    IN [s1 EXCEPT !.objects = Drop(s1.objects, l.layout_handle)]

\* destroy() that leaves the entities of the layout behind
destroy_keeps_entities(s, l) ==
    LET s2 == delete_block(s, block_record_name(s, l))
    IN [s2 EXCEPT !.objects = Drop(s2.objects, l.layout_handle)]

\* Layout.destroy
destroy(s, l) ==
    LET s1 == delete_all_entities(s, l)
        s2 == delete_block(s1, block_record_name(s1, l))
    IN [s2 EXCEPT !.objects = Drop(s2.objects, l.layout_handle)]

\* Layouts.delete: line 137, the model space cannot be deleted
delete_is_model(name) == name = "Model"

\* Layouts.delete: the names the loop of line 142 can pick first
delete_candidates(s, name) == (DOMAIN s.layouts) \ {name, "Model"}

\* Layouts.delete: lines 141-145, pick is the layout the loop activates
\* (NoName when the loop finds none)
delete_activate_other(s, name, pick) ==
    IF layout_key(s.layouts[name]) = get_active_layout_key(s) /\ pick # NoName
    THEN set_active_layout(s, pick)
    ELSE s

\* delete() that leaves the name in the layout management table
delete_keeps_table(s, name, pick) ==
    IF delete_is_model(name) THEN Fail(s, "DXFValueError")
    ELSE IF name \notin DOMAIN s.layouts THEN Fail(s, "KeyError")
    ELSE LET layout == s.layouts[name]
             s1 == delete_activate_other(s, name, pick)
         IN IF s1.err # "none" THEN s1
            ELSE destroy([s1 EXCEPT !.layouts = Drop(s1.layouts, layout_name(s1, layout))],
                         layout)

\* Layouts.delete
delete(s, name, pick) ==
    IF delete_is_model(name) THEN Fail(s, "DXFValueError")
    ELSE IF name \notin DOMAIN s.layouts THEN Fail(s, "KeyError")
    ELSE LET layout == s.layouts[name]
             s1 == delete_activate_other(s, name, pick)
         IN IF s1.err # "none" THEN s1
            ELSE destroy([s1 EXCEPT
                             !.table = Drop(s1.table, layout_name(s1, layout)),
                             !.layouts = Drop(s1.layouts, layout_name(s1, layout))],
                         layout)

\* Layout.add_entity -> Layout._set_paperspace
paperspace_of(s, l) == paperspace_flag(layout_name(s, l))

add_entity(s, name) ==
    LET l == s.layouts[name]
        h == s.nexthandle
    IN [s EXCEPT !.nexthandle = h + 1,
                 !.entitydb = Put(s.entitydb, h,
                                  [owner |-> layout_key(l),
                                   paperspace |-> paperspace_of(s, l)]),
                 !.espace = [s.espace EXCEPT ![l.block_record_handle] = @ \cup {h}]]

----------------------------------------------------------------------------
(* The calls and their bookkeeping *)

Commit(s) ==
    /\ layouts' = s.layouts
    /\ table' = s.table
    /\ objects' = s.objects
    /\ block_records' = s.block_records
    /\ blocks' = s.blocks
    /\ espace' = s.espace
    /\ entitydb' = s.entitydb
    /\ nexthandle' = s.nexthandle

Call(op, name, err, ret) == [op |-> op, name |-> name, err |-> err, ret |-> ret]

NoScenario == [stage |-> 0, name |-> NoName, err |-> "none"]

\* the entities of the loaded drawing: none, or one entity (handle 5) in the
\* entity space of the model space block (1) or of the paper space block (2),
\* with any owner and paperspace tag
LoadedEntities ==
    {<<>>} \cup {<<[space |-> k, owner |-> o, paperspace |-> p]>> :
                    k \in {1, 2}, o \in {NoHandle, 1, 2}, p \in {0, 1}}

\* the drawing as created from the template: model space and one paper space
\* layout, which is the active one
Drawing(loaded) ==
    [objects |-> (3 :> [name |-> "Model", taborder |-> 0, block_record |-> 1]
               @@ 4 :> [name |-> "Layout1", taborder |-> 1, block_record |-> 2]),
     block_records |-> (1 :> [name |-> MODEL_SPACE, layout |-> 3]
                     @@ 2 :> [name |-> PAPER_SPACE, layout |-> 4]),
     blocks |-> (MODEL_SPACE :> 1 @@ PAPER_SPACE :> 2),
     espace |-> IF loaded = <<>> THEN (1 :> {} @@ 2 :> {})
                ELSE [k \in {1, 2} |-> IF k = loaded[1].space THEN {5} ELSE {}],
     entitydb |-> IF loaded = <<>> THEN Empty
                  ELSE (5 :> [owner |-> loaded[1].owner,
                              paperspace |-> loaded[1].paperspace]),
     nexthandle |-> IF loaded = <<>> THEN 5 ELSE 6,
     table |-> ("Model" :> 3 @@ "Layout1" :> 4),
     layouts |-> Empty,
     err |-> "none"]

\* Layouts.__init__ on a loaded drawing
InitLayouts(loaded) ==
    LET s == setup(Drawing(loaded), DOMAIN Drawing(loaded).table) IN
    /\ layouts = s.layouts
    /\ table = s.table
    /\ objects = s.objects
    /\ block_records = s.block_records
    /\ blocks = s.blocks
    /\ espace = s.espace
    /\ entitydb = s.entitydb
    /\ nexthandle = s.nexthandle
    /\ last = Call("init", NoName, "none", NoName)
    /\ scenario = NoScenario

Init ==
    /\ \E loaded \in LoadedEntities : InitLayouts(loaded)
    /\ paper = Idle
    /\ cache = Idle
    /\ render = Idle
    /\ style = Idle
    /\ curves = Idle

New(name, attribs) ==
    /\ new_name_exists(State, name) \/ nexthandle + 1 <= MaxHandle
    /\ LET s == new(State, name, attribs) IN
       /\ Commit(s)
       /\ last' = Call("new", name, s.err, IF s.err = "none" THEN name ELSE NoName)
       /\ scenario' = IF s.err = "none" /\ (DOMAIN layouts) \ {"Model"} # {}
                      THEN [stage |-> 1, name |-> name, err |-> "none"]
                      ELSE NoScenario

SetActive(name) ==
    LET s == set_active_layout(State, name) IN
    /\ Commit(s)
    /\ last' = Call("set_active_layout", name, s.err, NoName)
    /\ scenario' = IF scenario.stage = 1 /\ scenario.name = name
                   THEN [stage |-> 2, name |-> name, err |-> s.err]
                   ELSE NoScenario

Delete(name) ==
    \E pick \in IF name \in DOMAIN layouts /\ delete_candidates(State, name) # {}
                THEN delete_candidates(State, name) ELSE {NoName} :
        LET s == delete(State, name, pick) IN
        /\ Commit(s)
        /\ last' = Call("delete", name, s.err, NoName)
        /\ scenario' = IF scenario.stage = 2 /\ scenario.name = name /\ scenario.err = "none"
                       THEN [stage |-> 3, name |-> name, err |-> s.err]
                       ELSE NoScenario

AddEntity(name) ==
    /\ name \in DOMAIN layouts
    /\ nexthandle <= MaxHandle
    /\ Cardinality(DOMAIN entitydb) < MaxEntities
    /\ Commit(add_entity(State, name))
    /\ last' = Call("add_entity", name, "none", NoName)
    /\ scenario' = NoScenario

GetFirst ==
    /\ last' = Call("get", NoName, get(State, NoName).err, get(State, NoName).ret)
    /\ UNCHANGED <<layouts, table, objects, block_records, blocks, espace, entitydb,
                   nexthandle, scenario>>

LayoutsNext ==
    \/ \E name \in Names, attribs \in TabOrderAttribs : New(name, attribs)
    \/ \E name \in Names : SetActive(name)
    \/ \E name \in Names : Delete(name)
    \/ \E name \in Names : AddEntity(name)
    \/ GetFirst

Next == LayoutsNext /\ UNCHANGED <<paper, cache, render, style, curves>>

Spec == Init /\ [][Next]_vars

\* the directory under new() without taborder and delete() only
TaborderNext ==
    /\ \/ \E name \in Names : New(name, <<>>)
       \/ \E name \in Names : Delete(name)
    /\ UNCHANGED <<paper, cache, render, style, curves>>

SpecTaborder == Init /\ [][TaborderNext]_vars

----------------------------------------------------------------------------
TypeOK ==
    /\ DOMAIN layouts \subseteq Names
    /\ nexthandle \in 5..(MaxHandle + 1)

----------------------------------------------------------------------------
(* Layout.paper_setup: one layout with its plot settings and viewports.      *)
(* Lengths are kept in tenths of a millimetre, so that the inch factor 25.4  *)
(* is the integer 254.                                                       *)

MaxViewports == 2

USE_STANDARD_SCALE == 16

\* flags & bit # 0, flags | bit and flags & ~bit for a single bit
HasBit(flags, bit) == (flags \div bit) % 2 = 1
BitOr(flags, bit) == IF HasBit(flags, bit) THEN flags ELSE flags + bit
BitAndNot(flags, bit) == IF HasBit(flags, bit) THEN flags - bit ELSE flags

\* lldxf.const.STD_SCALES, the entries used here
STD_SCALES == (16 :> <<1, 1>> @@ 17 :> <<1, 2>> @@ 25 :> <<1, 50>> @@ 27 :> <<2, 1>>)

\* Layout._scale_tuple
scale_tuple(scale_index) ==
    IF scale_index \in DOMAIN STD_SCALES THEN STD_SCALES[scale_index] ELSE <<1, 1>>

\* str.lower() on the units used here
lower(u) ==
    CASE u = "mm" -> "mm"
      [] u = "MM" -> "mm"
      [] u = "Inch" -> "inch"
      [] u = "inches" -> "inches"
      [] u = "pixel" -> "pixel"

\* units.startswith('inch')
startswith_inch(u) == u \in {"inch", "inches"}

\* the arguments of paper_setup
SetupSizes == {<<297, 210>>}
SetupMargins == {<<10, 15, 10, 15>>}
SetupUnits == {"mm", "Inch", "pixel"}
SetupRotations == {-1, 0, 3, 4}
SetupScales ==
    {[kind |-> "int", index |-> i, pair |-> <<>>] : i \in {0, 17, 25}}
    \cup {[kind |-> "tuple", index |-> 0, pair |-> q] : q \in {<<1, 50>>, <<2, 1>>}}
    \cup {[kind |-> "float", index |-> 0, pair |-> <<>>]}

PlotFlags == {672, 688}

\* paper_setup.use_standard_scale that sets the flag whatever the state
use_standard_scale_always(dxf, state) ==
    [dxf EXCEPT !.plot_layout_flags = BitOr(dxf.plot_layout_flags, USE_STANDARD_SCALE)]

\* paper_setup.use_standard_scale
use_standard_scale(dxf, state) ==
    [dxf EXCEPT !.plot_layout_flags =
        IF state THEN BitOr(dxf.plot_layout_flags, USE_STANDARD_SCALE)
        ELSE BitAndNot(dxf.plot_layout_flags, USE_STANDARD_SCALE)]

\* Layout.reset_viewports: removes the viewports and adds the main viewport,
\* 120% of the paper in paper space units
reset_viewports(p) ==
    LET dxf == p.dxf
        unit_factor == IF dxf.plot_paper_units = 0 THEN 254 ELSE 10
        sn == IF dxf.scale_numerator = 0 THEN 1 ELSE dxf.scale_numerator
        sd == IF dxf.scale_numerator = 0 THEN 1 ELSE dxf.scale_denominator
        vp_width == [num |-> dxf.paper_width * sd * 12, den |-> unit_factor * sn * 10]
        vp_height == [num |-> dxf.paper_height * sd * 12, den |-> unit_factor * sn * 10]
    IN [p EXCEPT !.viewports = <<[id |-> 1, width |-> vp_width, height |-> vp_height]>>,
                 !.dxf.viewport = 1]

\* Layout.paper_setup: lines 264-272, the scale and the use-standard-scale flag
setup_scale(p, scale) ==
    IF scale.kind = "tuple"
    THEN [p EXCEPT !.dxf = use_standard_scale(p.dxf, FALSE),
                   !.standard_scale = 16, !.scale = scale.pair]
    ELSE IF scale.kind = "int"
    THEN [p EXCEPT !.dxf = use_standard_scale(p.dxf, TRUE),
                   !.standard_scale = scale.index, !.scale = scale_tuple(scale.index)]
    ELSE [p EXCEPT !.err = "DXFTypeError"]

\* Layout.paper_setup: lines 288-313
setup_plotsettings(p, size, margins, units) ==
    LET unit_factor == IF startswith_inch(lower(units)) THEN 254 ELSE 10 IN
    reset_viewports(
        [p EXCEPT !.dxf = [p.dxf EXCEPT
            !.page_setup_name = "",
            !.paper_size = <<"ezdxf", size[1], size[2],
                             IF startswith_inch(lower(units)) THEN "Inches" ELSE "MM">>,
            !.left_margin = margins[4] * unit_factor,
            !.bottom_margin = margins[3] * unit_factor,
            !.right_margin = margins[2] * unit_factor,
            !.top_margin = margins[1] * unit_factor,
            !.paper_width = size[1] * unit_factor,
            !.paper_height = size[2] * unit_factor,
            !.scale_numerator = p.scale[1],
            !.scale_denominator = p.scale[2],
            !.plot_paper_units = IF startswith_inch(lower(units)) THEN 0 ELSE 1,
            !.plot_rotation = p.rotation,
            !.standard_scale_type = p.standard_scale,
            !.limmax = size]])

\* Layout.paper_setup; p carries the locals standard_scale, scale and rotation
paper_setup(p0, size, margins, units, rotation, scale) ==
    LET p == [p0 EXCEPT !.err = "none", !.rotation = rotation]
    IN IF p.name = "Model" THEN [p EXCEPT !.err = "DXFTypeError"]
       ELSE IF rotation \notin {0, 1, 2, 3} THEN [p EXCEPT !.err = "DXFValueError"]
       ELSE LET p1 == setup_scale(p, scale) IN
            IF p1.err # "none" THEN p1
            ELSE IF ~startswith_inch(lower(units)) /\ lower(units) # "mm"
                 THEN [p1 EXCEPT !.err = "DXFValueError"]
                 ELSE setup_plotsettings(p1, size, margins, units)

\* the LAYOUT object as created by the template, one viewport
NewPlotSettings(flags) ==
    [plot_layout_flags |-> flags, page_setup_name |-> "",
     paper_size |-> <<"ISO_A3", 420, 297, "MM">>,
     left_margin |-> 75, bottom_margin |-> 200, right_margin |-> 75, top_margin |-> 200,
     paper_width |-> 4200, paper_height |-> 2970,
     scale_numerator |-> 1, scale_denominator |-> 1,
     plot_paper_units |-> 1, plot_rotation |-> 0, standard_scale_type |-> 16,
     limmax |-> <<420, 297>>, viewport |-> 1]

PaperCall(op, err, units, rotation, scale) ==
    [op |-> op, err |-> err, units |-> units, rotation |-> rotation, scale |-> scale]

NoScale == [kind |-> "none", index |-> 0, pair |-> <<>>]

PaperInit ==
    /\ \E name \in {"Model", "Layout1"}, flags \in PlotFlags :
          paper = [name |-> name, dxf |-> NewPlotSettings(flags),
                   viewports |-> <<[id |-> 1, width |-> [num |-> 50400, den |-> 100],
                                    height |-> [num |-> 35640, den |-> 100]]>>,
                   last |-> PaperCall("init", "none", "", 0, NoScale)]
    /\ InitLayouts(<<>>)
    /\ cache = Idle
    /\ render = Idle
    /\ style = Idle
    /\ curves = Idle

PaperSetup(size, margins, units, rotation, scale) ==
    LET p == paper_setup([name |-> paper.name, dxf |-> paper.dxf,
                          viewports |-> paper.viewports, err |-> "none",
                          rotation |-> 0, standard_scale |-> 0, scale |-> <<>>],
                         size, margins, units, rotation, scale)
    IN paper' = [name |-> p.name, dxf |-> p.dxf, viewports |-> p.viewports,
                 last |-> PaperCall("paper_setup", p.err, units, rotation, scale)]

\* Layout.add_viewport: one more viewport on the layout
AddViewport ==
    /\ Len(paper.viewports) < MaxViewports
    /\ paper' = [paper EXCEPT
          !.viewports = Append(@, [id |-> Len(@) + 1,
                                   width |-> [num |-> 100, den |-> 1],
                                   height |-> [num |-> 100, den |-> 1]]),
          !.last = PaperCall("add_viewport", "none", "", 0, NoScale)]

PaperNext ==
    /\ \/ \E size \in SetupSizes, margins \in SetupMargins, units \in SetupUnits,
             rotation \in SetupRotations, scale \in SetupScales :
                PaperSetup(size, margins, units, rotation, scale)
       \/ AddViewport
    /\ UNCHANGED <<layouts, table, objects, block_records, blocks, espace, entitydb,
                   nexthandle, last, scenario, cache, render, style, curves>>

SpecPaper == PaperInit /\ [][PaperNext]_vars

----------------------------------------------------------------------------
(* Cache: bounding boxes by entity key (ezdxf/bbox.py) *)

MaxGets == 3

NoBox == "no box"      \* None, where a bounding box is expected
Boxes == {"box1", "box2"}

\* the entities: dxftype, dxf.handle (NoName is None) and uuid
CacheEntities ==
    {[id |-> "line", dxftype |-> "LINE", handle |-> "A1", uuid |-> "uuid-1"],
     [id |-> "hatch", dxftype |-> "HATCH", handle |-> "B2", uuid |-> "uuid-2"],
     [id |-> "virtual", dxftype |-> "LINE", handle |-> NoName, uuid |-> "uuid-3"],
     [id |-> "virtual0", dxftype |-> "CIRCLE", handle |-> "0", uuid |-> "uuid-4"],
     [id |-> "vhatch", dxftype |-> "HATCH", handle |-> NoName, uuid |-> "uuid-5"]}

EntityIds == {e.id : e \in CacheEntities}

\* the arguments of invalidate(): one or two entities
InvalidateArgs ==
    {<<e>> : e \in CacheEntities} \cup
    {<<e1, e2>> : e1 \in {e \in CacheEntities : e.dxftype # "HATCH"}, e2 \in CacheEntities}

\* _get_key() without the special treatment of HATCH
get_key_hatch_too(c, entity) ==
    IF entity.handle = NoName \/ entity.handle = "0"
    THEN IF c.use_uuid THEN entity.uuid ELSE NoName
    ELSE entity.handle

\* _get_key() that uses the UUID whatever the cache was created with
get_key_uuid_always(c, entity) ==
    IF entity.dxftype = "HATCH" THEN NoName
    ELSE IF entity.handle = NoName \/ entity.handle = "0"
    THEN entity.uuid
    ELSE entity.handle

\* Cache._get_key: the key of the entity or None
get_key(c, entity) ==
    IF entity.dxftype = "HATCH" THEN NoName
    ELSE IF entity.handle = NoName \/ entity.handle = "0"
    THEN IF c.use_uuid THEN entity.uuid ELSE NoName
    ELSE entity.handle

\* get() that counts nothing when the key has no entry
cache_get_uncounted(c, entity) ==
    LET key == get_key(c, entity) IN
    IF key = NoName THEN [c EXCEPT !.misses = @ + 1, !.ret = NoBox]
    ELSE IF key \notin DOMAIN c.boxes THEN [c EXCEPT !.ret = NoBox]
    ELSE [c EXCEPT !.hits = @ + 1, !.ret = c.boxes[key]]

\* Cache.get: the result is c.ret
cache_get(c, entity) ==
    LET key == get_key(c, entity) IN
    IF key = NoName THEN [c EXCEPT !.misses = @ + 1, !.ret = NoBox]
    ELSE IF key \notin DOMAIN c.boxes THEN [c EXCEPT !.misses = @ + 1, !.ret = NoBox]
    ELSE [c EXCEPT !.hits = @ + 1, !.ret = c.boxes[key]]

\* Cache.store
cache_store(c, entity, box) ==
    LET key == get_key(c, entity) IN
    IF key = NoName THEN c
    ELSE [c EXCEPT !.boxes = Put(c.boxes, key, box)]

\* invalidate() step that lets the KeyError of a missing entry escape
invalidate_one_raising(c, entity) ==
    IF get_key(c, entity) \in DOMAIN c.boxes
    THEN [c EXCEPT !.boxes = Drop(c.boxes, get_key(c, entity))]
    ELSE [c EXCEPT !.err = "KeyError"]

\* Cache.invalidate: lines 68-71, del raises KeyError for a key without entry
\* (None included), which is caught
invalidate_one(c, entity) ==
    IF get_key(c, entity) \in DOMAIN c.boxes
    THEN [c EXCEPT !.boxes = Drop(c.boxes, get_key(c, entity))]
    ELSE c

\* Cache.invalidate: the loop over the entities
RECURSIVE cache_invalidate(_, _)
cache_invalidate(c, entities) ==
    IF entities = <<>> \/ c.err # "none" THEN c
    ELSE cache_invalidate(invalidate_one(c, Head(entities)), Tail(entities))

\* Cache.__init__; stored remembers for every entity the box stored for it
\* since it was invalidated last
NewCache(uuid) ==
    [boxes |-> Empty, use_uuid |-> uuid, hits |-> 0, misses |-> 0,
     stored |-> [i \in EntityIds |-> NoBox],
     op |-> "init", args |-> <<>>, ret |-> NoBox, err |-> "none"]

CacheInit ==
    /\ \E uuid \in BOOLEAN : cache = NewCache(uuid)
    /\ InitLayouts(<<>>)
    /\ paper = Idle
    /\ render = Idle
    /\ style = Idle
    /\ curves = Idle

CacheGet(entity) ==
    /\ cache.hits + cache.misses < MaxGets
    /\ cache' = [cache_get(cache, entity) EXCEPT
                    !.op = "get", !.args = <<entity>>, !.err = "none"]

CacheStore(entity, box) ==
    cache' = [cache_store(cache, entity, box) EXCEPT
                 !.op = "store", !.args = <<entity>>, !.ret = box, !.err = "none",
                 !.stored[entity.id] = box]

CacheInvalidate(entities) ==
    cache' = [cache_invalidate([cache EXCEPT !.err = "none"], entities) EXCEPT
                 !.op = "invalidate", !.args = entities, !.ret = NoBox,
                 !.stored = [i \in EntityIds |->
                                IF \E k \in 1..Len(entities) : entities[k].id = i
                                THEN NoBox ELSE cache.stored[i]]]

CacheNext ==
    /\ \/ \E entity \in CacheEntities : CacheGet(entity)
       \/ \E entity \in CacheEntities, box \in Boxes : CacheStore(entity, box)
       \/ \E entities \in InvalidateArgs : CacheInvalidate(entities)
    /\ UNCHANGED <<layouts, table, objects, block_records, blocks, espace, entitydb,
                   nexthandle, last, scenario, paper, render, style, curves>>

SpecCache == CacheInit /\ [][CacheNext]_vars

----------------------------------------------------------------------------
(* RenderEngine: MULTILEADER to DXF primitives (ezdxf/render/mleader.py) *)

MaxVertices == 2

\* lengths: 5e-10 drawing units for the scale, whole drawing units elsewhere;
\* the components of a unit vector are kept in 1/Unit
Unit == 60
SCALE_EPS == 2         \* 1e-9
NoVec == <<>>
X_AXIS == <<1, 0>>

Abs(x) == IF x < 0 THEN -x ELSE x
vadd(a, b) == <<a[1] + b[1], a[2] + b[2]>>
vsub(a, b) == <<a[1] - b[1], a[2] - b[2]>>

\* Vec3.magnitude, in whole units (rounded down)
magnitude(v) ==
    LET n == v[1] * v[1] + v[2] * v[2]
    IN  CHOOSE m \in 0..(Abs(v[1]) + Abs(v[2])) : m * m <= n /\ n < (m + 1) * (m + 1)

\* Vec3.normalize(length): self * (length / magnitude), ZeroDivisionError for
\* the null vector
can_normalize(v) == v # <<0, 0>>
normalize(v, length) ==
    <<(v[1] * length) \div magnitude(v), (v[2] * length) \div magnitude(v)>>

\* a unit vector multiplied by a length
times(direction, length) ==
    <<(direction[1] * length) \div Unit, (direction[2] * length) \div Unit>>

\* render.arrows.arrow_length for the closed filled arrow
arrow_length(name, arrow_size) == arrow_size

\* OVERRIDE_FLAG
OVERRIDE_FLAG ==
    [leader_type |-> 2^0, leader_line_color |-> 2^1, leader_linetype_handle |-> 2^2,
     leader_lineweight |-> 2^3, has_landing |-> 2^4, landing_gap |-> 2^5,
     has_dogleg |-> 2^6, dogleg_length |-> 2^7, arrow_head_handle |-> 2^8,
     arrow_head_size |-> 2^9, content_type |-> 2^10, text_style_handle |-> 2^11,
     text_left_attachment_type |-> 2^12, text_angle_type |-> 2^13,
     text_alignment_type |-> 2^14, text_color |-> 2^15, char_height |-> 2^16,
     has_text_frame |-> 2^17, block_record_handle |-> 2^19, block_color |-> 2^20,
     block_scale_vector |-> 2^21, block_rotation |-> 2^22,
     block_connection_type |-> 2^23, scale |-> 2^24,
     text_right_attachment_type |-> 2^25, text_switch_alignment |-> 2^26,
     text_attachment_direction |-> 2^27, text_top_attachment_direction |-> 2^28,
     text_bottom_attachment_direction |-> 2^29]

\* MLeaderStyleOverride.is_overridden
is_overridden(mleader_dxf, attrib_name) ==
    IF attrib_name \in DOMAIN OVERRIDE_FLAG
    THEN HasBit(mleader_dxf.property_override_flags, OVERRIDE_FLAG[attrib_name])
    ELSE FALSE

\* MLeaderStyleOverride.get, for the attributes other than block_scale_vector
\* and char_height
style_get(style_dxf, mleader_dxf, attrib_name) ==
    IF is_overridden(mleader_dxf, attrib_name) /\ attrib_name \in DOMAIN mleader_dxf
    THEN mleader_dxf[attrib_name]
    ELSE style_dxf[attrib_name]

\* a DXF primitive of the result
Entity(dxftype) ==
    [dxftype |-> dxftype, start |-> NoVec, end |-> NoVec, insert |-> NoVec,
     name |-> NoName, fit_points |-> <<>>]

Raise(e, error) == [e EXCEPT !.err = error]

\* RenderEngine.__init__: the fields run() reads
RenderEngine(mleader_dxf, context, style_dxf) ==
    [entities |-> <<>>,
     context |-> context,
     scale |-> context.scale,
     leader_type |-> style_get(style_dxf, mleader_dxf, "leader_type"),
     has_dogleg |-> style_get(style_dxf, mleader_dxf, "has_dogleg"),
     returned |-> FALSE,
     err |-> "none"]

\* get_arrow_direction
has_arrow_direction(vertices) ==
    Len(vertices) < 2 \/ can_normalize(vsub(vertices[2], vertices[1]))
get_arrow_direction(vertices) ==
    IF Len(vertices) < 2 THEN normalize(X_AXIS, Unit)
    ELSE normalize(vsub(vertices[2], vertices[1]), Unit)

\* _get_dogleg_vector
has_dogleg_vector(leader) ==
    leader.has_dogleg_vector => can_normalize(leader.dogleg_vector)
get_dogleg_vector(leader) ==
    IF leader.has_dogleg_vector
    THEN normalize(leader.dogleg_vector, leader.dogleg_length)
    ELSE normalize(X_AXIS, leader.dogleg_length)

\* _get_leader_vertices
get_leader_vertices(leader, line_vertices, has_dogleg) ==
    LET end_point == leader.last_leader_point
        vertices == IF has_dogleg THEN Append(line_vertices, end_point)
                    ELSE line_vertices
    IN  Append(vertices, vadd(end_point, get_dogleg_vector(leader)))

\* RenderEngine.add_dxf_line, without OCS
add_dxf_line(e, start, end) ==
    [e EXCEPT !.entities = Append(@, [Entity("LINE") EXCEPT !.start = start, !.end = end])]

\* RenderEngine.add_dxf_spline, without OCS
add_dxf_spline(e, fit_points) ==
    [e EXCEPT !.entities = Append(@, [Entity("SPLINE") EXCEPT !.fit_points = fit_points])]

\* RenderEngine.add_arrow
add_arrow(e, name, location) ==
    [e EXCEPT !.entities = Append(@, [Entity("INSERT") EXCEPT !.name = name, !.insert = location])]

\* RenderEngine.arrow_block_name and create_arrow_block: no arrow head handles
arrow_block_name(e, line) == "_CLOSED_FILLED"

\* RenderEngine.add_mtext_content
add_mtext_content(e) == [e EXCEPT !.entities = Append(@, Entity("MTEXT"))]

\* RenderEngine.add_block_content
add_block_content(e) == [e EXCEPT !.entities = Append(@, Entity("INSERT"))]

\* add_content() that adds nothing
add_content_skipped(e) == e

\* RenderEngine.add_content
add_content(e) ==
    IF e.context.mtext THEN add_mtext_content(e)
    ELSE IF e.context.block THEN add_block_content(e)
    ELSE e

\* RenderEngine.add_dogleg
add_dogleg(e, leader) ==
    IF ~can_normalize(leader.dogleg_vector) THEN Raise(e, "ZeroDivisionError")
    ELSE add_dxf_line(e, leader.last_leader_point,
                      vadd(leader.last_leader_point,
                           normalize(leader.dogleg_vector, leader.dogleg_length)))

\* the straight lines of add_leader_line
RECURSIVE add_lines(_, _)
add_lines(e, vertices) ==
    IF Len(vertices) < 2 THEN e
    ELSE add_lines(add_dxf_line(e, vertices[1], vertices[2]), Tail(vertices))

\* RenderEngine.add_leader_line
add_leader_line(e, leader, line) ==
    IF e.leader_type = 0 THEN e
    ELSE IF ~has_dogleg_vector(leader) THEN Raise(e, "ZeroDivisionError")
    ELSE
    LET has_dogleg == e.has_dogleg # 0 /\ e.leader_type # 2
        vertices == get_leader_vertices(leader, line.vertices, has_dogleg)
        arrow_name == arrow_block_name(e, line)
        arrow_size == e.context.arrowhead_size
    IN  IF Len(vertices) < 2 THEN e
        ELSE IF ~has_arrow_direction(vertices) THEN Raise(e, "ZeroDivisionError")
        ELSE
        LET arrow_direction == get_arrow_direction(vertices)
            with_arrow == add_arrow(e, arrow_name, vertices[1])
            arrow_offset == times(arrow_direction, arrow_length(arrow_name, arrow_size))
            moved == [vertices EXCEPT ![1] = vadd(@, arrow_offset)]
        IN  IF e.leader_type = 1 THEN add_lines(with_arrow, moved)
            ELSE IF e.leader_type = 2 THEN add_dxf_spline(with_arrow, moved)
            ELSE with_arrow

\* add_leaders: the loop over the lines of a leader
RECURSIVE add_leader_lines(_, _, _)
add_leader_lines(e, leader, lines) ==
    IF lines = <<>> \/ e.err # "none" THEN e
    ELSE add_leader_lines(add_leader_line(e, leader, Head(lines)), leader, Tail(lines))

\* add_leaders: the loop over the leaders
RECURSIVE add_leaders_loop(_, _)
add_leaders_loop(e, leaders) ==
    IF leaders = <<>> \/ e.err # "none" THEN e
    ELSE LET leader == Head(leaders)
             dogleg == IF e.leader_type = 1 /\ e.has_dogleg # 0
                       THEN add_dogleg(e, leader) ELSE e
         IN  add_leaders_loop(add_leader_lines(dogleg, leader, leader.lines),
                              Tail(leaders))

\* add_leaders() without the test for invisible leaders
add_leaders_always(e) == add_leaders_loop(e, e.context.leaders)

\* RenderEngine.add_leaders
add_leaders(e) ==
    IF e.leader_type = 0 THEN e
    ELSE add_leaders_loop(e, e.context.leaders)

\* run() that renders at any scale
run_any_scale(e) ==
    LET cleared == [e EXCEPT !.entities = <<>>, !.err = "none", !.returned = FALSE]
        done == add_leaders(add_content(cleared))
    IN  [done EXCEPT !.returned = (done.err = "none")]

\* RenderEngine.run: the result is e.entities when e.returned
run(e) ==
    LET cleared == [e EXCEPT !.entities = <<>>, !.err = "none", !.returned = FALSE]
        done == IF Abs(e.scale) > SCALE_EPS
                THEN add_leaders(add_content(cleared))
                ELSE cleared
    IN  [done EXCEPT !.returned = (done.err = "none")]

(* the multileaders *)

Points == {<<0, 0>>, <<240, 0>>, <<240, 180>>}

RECURSIVE SeqsUpTo(_, _)
SeqsUpTo(S, n) ==
    IF n = 0 THEN {<<>>}
    ELSE LET shorter == SeqsUpTo(S, n - 1)
         IN  shorter \cup {Append(q, x) : q \in {r \in shorter : Len(r) = n - 1}, x \in S}

LeaderLines == {[vertices |-> v] : v \in SeqsUpTo(Points, MaxVertices)}

Leaders ==
    {[last_leader_point |-> p, dogleg_vector |-> d, has_dogleg_vector |-> h,
      dogleg_length |-> 8, lines |-> <<l>>] :
        p \in Points, d \in {<<1, 0>>, <<0, -2>>}, h \in BOOLEAN, l \in LeaderLines}

Scales == {0, SCALE_EPS, -(SCALE_EPS + 1), 2000000000}

Contexts ==
    {[scale |-> s, mtext |-> c[1], block |-> c[2], arrowhead_size |-> a, leaders |-> ls] :
        s \in Scales, c \in {<<FALSE, FALSE>>, <<TRUE, FALSE>>, <<FALSE, TRUE>>},
        a \in {5, 10}, ls \in {<<>>} \cup {<<l>> : l \in Leaders}}

StyleDxfs == [leader_type : 0..2, has_dogleg : {0, 1}]

MLeaderDxfs ==
    [property_override_flags : {0, 1, 64}, leader_type : {1}, has_dogleg : {1}] \cup
    [property_override_flags : {0, 1, 64}, has_dogleg : {1}]

RenderInit ==
    /\ \E mleader_dxf \in MLeaderDxfs, context \in Contexts, style_dxf \in StyleDxfs :
           render = RenderEngine(mleader_dxf, context, style_dxf)
    /\ InitLayouts(<<>>)
    /\ paper = Idle
    /\ cache = Idle
    /\ style = Idle
    /\ curves = Idle

Run == render' = run(render)

RenderNext ==
    /\ Run
    /\ UNCHANGED <<layouts, table, objects, block_records, blocks, espace, entitydb,
                   nexthandle, last, scenario, paper, cache, style, curves>>

SpecRender == RenderInit /\ [][RenderNext]_vars

----------------------------------------------------------------------------
(* MLeaderStyleOverride: the style of a MULTILEADER with its overrides *)

USE_DEFAULT_CONTENT == 2^18

\* the attributes of the override table
OverrideAttribs == DOMAIN OVERRIDE_FLAG

\* MLEADERSTYLE attributes without an entry in the override table
PlainAttribs == {"max_leader_segments_points", "break_gap_size", "use_mtext_default_content"}

\* the table attributes a MULTILEADER has no DXF attribute for (lines 50, 61, 71)
NotInMLeader == {"landing_gap", "char_height", "text_switch_alignment"}

\* the value an attribute has in a MLEADERSTYLE and in a MULTILEADER
StyleValue(variant, attrib_name) ==
    IF attrib_name = "use_mtext_default_content" THEN variant % 2 ELSE variant
MLeaderValue(attrib_name) ==
    IF attrib_name = "block_scale_vector" THEN <<5, 5, 5>> ELSE 7

\* style.dxf: every attribute but block_scale_vector, which is kept as
\* block_scale_x, block_scale_y and block_scale_z when it is not the default
BlockScale == [block_scale_x |-> 2, block_scale_y |-> 3, block_scale_z |-> 4]
OverrideStyleDxfs ==
    {[a \in (OverrideAttribs \cup PlainAttribs \cup scales) \ {"block_scale_vector"} |->
         IF a \in scales THEN BlockScale[a] ELSE StyleValue(variant, a)] :
        variant \in {1, 2}, scales \in {{}, DOMAIN BlockScale}}

OverrideFlags == {0, 2^30 - 1} \cup {2^i : i \in 0..29}

\* mleader.dxf: the override flags and the attributes the entity stores
OverrideMLeaderDxfs ==
    {[a \in stored \cup {"property_override_flags"} |->
         IF a = "property_override_flags" THEN flags ELSE MLeaderValue(a)] :
        flags \in OverrideFlags,
        stored \in {OverrideAttribs \ NotInMLeader, {"leader_type", "has_dogleg"}, {}}}

\* dxf.get(key, default)
dxf_get(dxf, key, default) == IF key \in DOMAIN dxf THEN dxf[key] ELSE default

\* MLeaderStyleOverride.__init__
MLeaderStyleOverride(style_dxf, mleader_dxf, char_height) ==
    [style_dxf |-> style_dxf,
     mleader_dxf |-> mleader_dxf,
     char_height |-> char_height,
     property_override_flags |-> dxf_get(mleader_dxf, "property_override_flags", 0),
     block_scale_vector |-> <<dxf_get(style_dxf, "block_scale_x", 1),
                              dxf_get(style_dxf, "block_scale_y", 1),
                              dxf_get(style_dxf, "block_scale_z", 1)>>,
     use_mtext_default_content |->
         HasBit(dxf_get(mleader_dxf, "property_override_flags", 0), USE_DEFAULT_CONTENT)]

\* get() that never takes the value of the MULTILEADER
override_get_style_only(self, attrib_name) ==
    IF attrib_name = "block_scale_vector" THEN self.block_scale_vector
    ELSE self.style_dxf[attrib_name]

\* MLeaderStyleOverride.get
override_get(self, attrib_name) ==
    LET value == IF attrib_name = "block_scale_vector" THEN self.block_scale_vector
                 ELSE self.style_dxf[attrib_name]
    IN  IF is_overridden(self, attrib_name)
        THEN IF attrib_name = "char_height" THEN self.char_height
             ELSE dxf_get(self.mleader_dxf, attrib_name, value)
        ELSE value

StyleInit ==
    /\ \E style_dxf \in OverrideStyleDxfs, mleader_dxf \in OverrideMLeaderDxfs :
           style = [self |-> MLeaderStyleOverride(style_dxf, mleader_dxf, 9),
                    attrib_name |-> NoName, value |-> 0]
    /\ InitLayouts(<<>>)
    /\ paper = Idle
    /\ cache = Idle
    /\ render = Idle
    /\ curves = Idle

StyleGet(attrib_name) ==
    style' = [style EXCEPT !.attrib_name = attrib_name,
                           !.value = override_get(style.self, attrib_name)]

StyleNext ==
    /\ \E attrib_name \in OverrideAttribs \cup PlainAttribs : StyleGet(attrib_name)
    /\ UNCHANGED <<layouts, table, objects, block_records, blocks, espace, entitydb,
                   nexthandle, last, scenario, paper, cache, render, curves>>

SpecStyle == StyleInit /\ [][StyleNext]_vars

----------------------------------------------------------------------------
(* Bezier curve tools (ezdxf/math/curvetools.py) *)

MaxPoints == 4
MaxCurves == 2

\* the parameter t is T / TDen; a point is <<numerator, denominator>>, one
\* coordinate, where the denominator is a power of TDen
TDen == 4
Ts == {-1, 0, 1, 2, 4, 5}
Coordinates == {0, 3}
NoResult == <<>>     \* nothing was returned

\* points[i] * t + points[i + 1] * (1.0 - t): the weights exchanged
lerp_swapped(a, b, t) == <<a[1] * t + b[1] * (TDen - t), a[2] * TDen>>

\* split_bezier: line 150, points[i] * (1.0 - t) + points[i + 1] * t
lerp(a, b, t) == <<a[1] * (TDen - t) + b[1] * t, a[2] * TDen>>

\* split_bezier: the inner function split(), lines 143-151; the result is
\* <<left, right>>
RECURSIVE split(_, _, _, _)
split(points, t, left, right) ==
    LET n == Len(points) - 1
        left1 == Append(left, points[1])
        right1 == Append(right, points[n + 1])
    IN  IF n = 0 THEN <<left1, right1>>
        ELSE split([i \in 1..n |-> lerp(points[i], points[i + 1], t)], t, left1, right1)

\* split_bezier
split_bezier(control_points, t) ==
    IF Len(control_points) < 2 THEN [err |-> "ValueError", ret |-> NoResult]
    ELSE IF t < 0 \/ t > TDen THEN [err |-> "ValueError", ret |-> NoResult]
    ELSE [err |-> "none", ret |-> split(control_points, t, <<>>, <<>>)]

\* quadratic_to_cubic_bezier, for coordinates that are multiples of 3
quadratic_to_cubic_bezier(curve) ==
    LET start == curve[1]
        control == curve[2]
        end == curve[3]
    IN  <<start, start + (2 * (control - start)) \div 3,
          end + (2 * (control - end)) \div 3, end>>

\* get_points() that does not elevate a quadratic curve
get_points_unchanged(bezier) == bezier

\* bezier_to_bspline: the inner function get_points(), lines 61-66
get_points(bezier) ==
    IF Len(bezier) < 4 THEN quadratic_to_cubic_bezier(bezier) ELSE bezier

\* bezier_to_bspline: lines 73-75, the control points without the first
\* point of every curve but the first
RECURSIVE extend_points(_, _)
extend_points(control_points, rest) ==
    IF rest = <<>> THEN control_points
    ELSE extend_points(control_points \o Tail(Head(rest)), Tail(rest))

\* bezier_to_bspline: lines 78-79, the knots of the joints k..n-1
RECURSIVE extend_knots(_, _, _)
extend_knots(knots, k, n) ==
    IF k >= n THEN knots
    ELSE extend_knots(knots \o <<k, k, k>>, k + 1, n)

\* bezier_to_bspline; BSpline() keeps the control points, the order and the knots
bezier_to_bspline(cs) ==
    LET bezier_curve_points == [i \in 1..Len(cs) |-> get_points(cs[i])]
        n == Len(bezier_curve_points)
    IN  IF n = 0 THEN [err |-> "ValueError", ret |-> NoResult]
        ELSE [err |-> "none",
              ret |-> [control_points |->
                           extend_points(bezier_curve_points[1], Tail(bezier_curve_points)),
                       order |-> 4,
                       knots |-> extend_knots(<<0, 0, 0, 0>>, 1, n) \o <<n, n, n, n>>]]

(* the calls *)

RECURSIVE SeqsOfLen(_, _)
SeqsOfLen(S, n) ==
    IF n = 0 THEN {<<>>}
    ELSE {Append(q, x) : q \in SeqsOfLen(S, n - 1), x \in S}

ControlPoints ==
    UNION {SeqsOfLen({<<c, 1>> : c \in Coordinates}, n) : n \in 0..MaxPoints}

BezierCurves == SeqsOfLen(Coordinates, 3) \cup SeqsOfLen(Coordinates, 4)

CurveLists == UNION {SeqsOfLen(BezierCurves, n) : n \in 0..MaxCurves}

CurveCall(op, args) ==
    [op |-> op, args |-> args, done |-> FALSE, err |-> "none", ret |-> NoResult]

CurvesInit ==
    /\ \/ \E control_points \in ControlPoints, t \in Ts :
              curves = CurveCall("split_bezier", <<control_points, t>>)
       \/ \E cs \in CurveLists : curves = CurveCall("bezier_to_bspline", <<cs>>)
    /\ InitLayouts(<<>>)
    /\ paper = Idle
    /\ cache = Idle
    /\ render = Idle
    /\ style = Idle

SplitBezier ==
    /\ curves.op = "split_bezier"
    /\ ~curves.done
    /\ LET result == split_bezier(curves.args[1], curves.args[2])
       IN  curves' = [curves EXCEPT !.done = TRUE, !.err = result.err, !.ret = result.ret]

BezierToBSpline ==
    /\ curves.op = "bezier_to_bspline"
    /\ ~curves.done
    /\ LET result == bezier_to_bspline(curves.args[1])
       IN  curves' = [curves EXCEPT !.done = TRUE, !.err = result.err, !.ret = result.ret]

CurvesNext ==
    /\ SplitBezier \/ BezierToBSpline
    /\ UNCHANGED <<layouts, table, objects, block_records, blocks, espace, entitydb,
                   nexthandle, last, scenario, paper, cache, render, style>>

SpecCurves == CurvesInit /\ [][CurvesNext]_vars

----------------------------------------------------------------------------
(* Properties *)

DirVars == <<layouts, table, objects, block_records, blocks, espace, entitydb, nexthandle>>

PaperLayouts == (DOMAIN layouts) \ {"Model"}

ActiveLayouts ==
    {n \in PaperLayouts : block_record_name(State, layouts[n]) = PAPER_SPACE}

\* C1: in every reachable state exactly one paper space layout is active and
\* active_layout() returns a layout
C1_ExactlyOneActive ==
    /\ Cardinality(ActiveLayouts) = 1
    /\ active_layout(State).err = "none"

\* C2: delete(name) of the active layout, when no other paper space layout
\* exists, fails with an internal error and keeps the layout
C2_DeleteLastFails ==
    [][(/\ last'.op = "delete"
        /\ last'.name \in ActiveLayouts
        /\ PaperLayouts = {last'.name})
       => (/\ last'.err = "DXFInternalEzdxfError"
           /\ last'.name \in DOMAIN layouts')]_vars

\* C3: delete("Model") and set_active_layout("Model") fail with DXFValueError
\* and change nothing of the directory
C3_ModelIsReserved ==
    [][(/\ last'.op \in {"delete", "set_active_layout"}
        /\ last'.name = "Model")
       => (/\ last'.err = "DXFValueError"
           /\ UNCHANGED DirVars)]_vars

C3_Witness ==
    /\ last.op \in {"delete", "set_active_layout"}
    /\ last.name = "Model"
    /\ last.err = "DXFValueError"
    /\ Cardinality(PaperLayouts) >= 2

\* C4: new(N), set_active_layout(N), delete(N), started with another paper
\* space layout in the directory, succeed at every step; afterwards a
\* remaining paper space layout is active and N is not in names_in_taborder()
C4_SequenceSucceeds ==
    /\ scenario.stage >= 2 => scenario.err = "none"
    /\ scenario.stage = 3 =>
          /\ active_layout(State).err = "none"
          /\ active_layout(State).ret \in PaperLayouts
          /\ \A i \in 1..Len(names_in_taborder(State)) :
                 names_in_taborder(State)[i] # scenario.name

\* C5: new(name) with a name of the directory fails with DXFValueError and
\* allocates and changes nothing
C5_NewExistingFails ==
    [][(/\ last'.op = "new"
        /\ last'.name \in DOMAIN layouts)
       => (/\ last'.err = "DXFValueError"
           /\ UNCHANGED DirVars)]_vars

C5_Witness ==
    /\ last.op = "new"
    /\ last.err = "DXFValueError"
    /\ last.name \in PaperLayouts

\* C6: every layout of the directory is a consistent triple of layout object,
\* block record and block, and nothing of a deleted layout is left
C6_ConsistentTriples ==
    /\ \A n \in DOMAIN layouts :
          LET l == layouts[n] IN
          /\ l.layout_handle \in DOMAIN objects
          /\ objects[l.layout_handle].block_record = l.block_record_handle
          /\ l.block_record_handle \in DOMAIN block_records
          /\ block_records[l.block_record_handle].layout = l.layout_handle
          /\ block_records[l.block_record_handle].name \in DOMAIN blocks
          /\ blocks[block_records[l.block_record_handle].name] = l.block_record_handle
    /\ DOMAIN objects = {layouts[n].layout_handle : n \in DOMAIN layouts}
    /\ DOMAIN block_records = {layouts[n].block_record_handle : n \in DOMAIN layouts}
    /\ \A b \in DOMAIN blocks :
          \E n \in DOMAIN layouts : blocks[b] = layouts[n].block_record_handle

C6_Witness ==
    /\ last.op = "delete"
    /\ last.err = "none"
    /\ Cardinality(PaperLayouts) >= 1
    /\ nexthandle > 5

\* C7: set_active_layout(name) of a paper space layout that is not active
\* swaps the block names: the target gets '*Paper_Space', the layout active
\* before gets the target's block name, all other block names stay, and no
\* block is called '*Paper_Space999999'
C7_CyclicSwap ==
    [][(/\ last'.op = "set_active_layout"
        /\ last'.name \in PaperLayouts
        /\ last'.name \notin ActiveLayouts)
       => LET target == layouts[last'.name].block_record_handle
              old == get_active_layout_key(State)
          IN /\ last'.err = "none"
             /\ block_records'[target].name = PAPER_SPACE
             /\ old # NoHandle => block_records'[old].name = block_records[target].name
             /\ \A h \in (DOMAIN block_records) \ {target, old} :
                    /\ h \in DOMAIN block_records'
                    /\ block_records'[h].name = block_records[h].name
             /\ TMP_PAPER_SPACE_NAME \notin DOMAIN blocks'
             /\ \A h \in DOMAIN block_records' :
                    block_records'[h].name # TMP_PAPER_SPACE_NAME]_vars

\* C8: set_active_layout(name) of the layout that is active already renames
\* no block and changes nothing
C8_AlreadyActiveNoOp ==
    [][(/\ last'.op = "set_active_layout"
        /\ last'.name \in PaperLayouts
        /\ layout_key(layouts[last'.name]) = get_active_layout_key(State))
       => (/\ last'.err = "none"
           /\ UNCHANGED DirVars)]_vars

C8_Witness ==
    /\ last.op = "set_active_layout"
    /\ last.name = "Layout1"
    /\ last.err = "none"
    /\ nexthandle = 5
    /\ ActiveLayouts = {"Layout1"}

\* C9: get(None) returns the paper space layout with the smallest taborder of
\* all paper space layouts, and fails when only the model space exists
C9_GetFirstPaperLayout ==
    last.op = "get" =>
        IF PaperLayouts = {}
        THEN last.err # "none"
        ELSE /\ last.err = "none"
             /\ last.ret \in PaperLayouts
             /\ \A m \in PaperLayouts :
                    taborder(State, layouts[last.ret]) <= taborder(State, layouts[m])

\* C10: after a successful delete(name) the name, the entities, the block, the
\* block record and the layout object of the layout are gone, and the other
\* layouts and their entities are as before, up to the active block name
C10_DeleteRemovesAll ==
    [][(/\ last'.op = "delete"
        /\ last'.err = "none")
       => LET n == last'.name
              key == layouts[n].block_record_handle
          IN /\ n \notin DOMAIN layouts'
             /\ n \notin DOMAIN table'
             /\ \A e \in DOMAIN entitydb' : entitydb'[e].owner # key
             /\ key \notin DOMAIN block_records'
             /\ key \notin DOMAIN espace'
             /\ \A b \in DOMAIN blocks' : blocks'[b] # key
             /\ layouts[n].layout_handle \notin DOMAIN objects'
             /\ DOMAIN layouts' = (DOMAIN layouts) \ {n}
             /\ \A m \in DOMAIN layouts' :
                    LET k == layouts[m].block_record_handle IN
                    /\ layouts'[m] = layouts[m]
                    /\ table'[m] = table[m]
                    /\ objects'[layouts[m].layout_handle] = objects[layouts[m].layout_handle]
                    /\ block_records'[k].layout = block_records[k].layout
                    /\ \/ block_records'[k].name = block_records[k].name
                       \/ block_records'[k].name = PAPER_SPACE
                    /\ espace'[k] = espace[k]
                    /\ \A e \in espace[k] : /\ e \in DOMAIN entitydb'
                                            /\ entitydb'[e] = entitydb[e]]_vars

C10_Witness ==
    /\ last.op = "delete"
    /\ last.err = "none"
    /\ nexthandle = 6
    /\ entitydb = Empty
    /\ "Layout1" \notin DOMAIN layouts

\* C11: every entity of the entity space of a layout has the layout key as
\* owner and paperspace 0 in 'Model' and 1 in every other layout
C11_OwnerAndPaperspace ==
    \A n \in DOMAIN layouts :
        \A e \in espace[layouts[n].block_record_handle] :
            /\ e \in DOMAIN entitydb
            /\ entitydb[e].owner = layout_key(layouts[n])
            /\ entitydb[e].paperspace = IF n = "Model" THEN 0 ELSE 1

C11_Witness ==
    /\ last.op = "set_active_layout"
    /\ last.err = "none"
    /\ \E n \in PaperLayouts \ ActiveLayouts :
          /\ 5 \in espace[layouts[n].block_record_handle]
          /\ n = "Layout1"
          /\ nexthandle > 6

\* the arguments of the paper_setup call are invalid
InvalidSetupArgs(c) ==
    \/ c.rotation \notin {0, 1, 2, 3}
    \/ ~startswith_inch(lower(c.units)) /\ lower(c.units) # "mm"
    \/ c.scale.kind \notin {"int", "tuple"}

\* C12: paper_setup with an invalid rotation, units string or scale fails and
\* leaves the plot settings (the use-standard-scale bit included) and the
\* viewports as they were
C12_InvalidSetupChangesNothing ==
    [][(/\ paper'.last.op = "paper_setup"
        /\ InvalidSetupArgs(paper'.last))
       => (/\ paper'.last.err # "none"
           /\ paper'.dxf = paper.dxf
           /\ paper'.viewports = paper.viewports)]_vars

\* C13: after a successful paper_setup the use-standard-scale bit is set iff
\* the scale was an index and cleared iff it was a pair, the other bits are as
\* before, and the stored scale is the pair or the table entry of the index
C13_UseStandardScale ==
    [][(/\ paper'.last.op = "paper_setup"
        /\ paper'.last.err = "none")
       => LET c == paper'.last IN
          /\ HasBit(paper'.dxf.plot_layout_flags, USE_STANDARD_SCALE) <=> (c.scale.kind = "int")
          /\ ~HasBit(paper'.dxf.plot_layout_flags, USE_STANDARD_SCALE) <=> (c.scale.kind = "tuple")
          /\ \A b \in {1, 2, 4, 8, 32, 64, 128, 256, 512, 1024} :
                HasBit(paper'.dxf.plot_layout_flags, b) <=> HasBit(paper.dxf.plot_layout_flags, b)
          /\ <<paper'.dxf.scale_numerator, paper'.dxf.scale_denominator>> =
                IF c.scale.kind = "tuple" THEN c.scale.pair
                ELSE IF c.scale.index \in DOMAIN STD_SCALES
                     THEN STD_SCALES[c.scale.index] ELSE <<1, 1>>]_vars

C13_Witness ==
    /\ paper.last.op = "paper_setup"
    /\ paper.last.err = "none"
    /\ paper.last.scale.kind = "tuple"
    /\ paper.dxf.plot_layout_flags = 672
    /\ paper.dxf.scale_denominator = 50

\* a cacheable entity: not a HATCH and with a real handle
Cacheable(e) == e.dxftype # "HATCH" /\ e.handle # NoName /\ e.handle # "0"

\* a handle-less entity that is no HATCH
HandleLess(e) == e.dxftype # "HATCH" /\ (e.handle = NoName \/ e.handle = "0")

\* C14: every get on a cacheable entity adds one to exactly one of hits and
\* misses: to hits, returning the last stored box, iff the entity was stored
\* since it was invalidated last, and to misses, returning no box, otherwise
C14_HitOrMiss ==
    [][(/\ cache'.op = "get"
        /\ Cacheable(cache'.args[1]))
       => IF cache.stored[cache'.args[1].id] # NoBox
          THEN /\ cache'.hits = cache.hits + 1
               /\ cache'.misses = cache.misses
               /\ cache'.ret = cache.stored[cache'.args[1].id]
          ELSE /\ cache'.hits = cache.hits
               /\ cache'.misses = cache.misses + 1
               /\ cache'.ret = NoBox]_vars

\* get, store, get, invalidate, get: one hit and two misses
C14_Witness ==
    /\ cache.op = "get"
    /\ cache.args[1].id = "line"
    /\ cache.hits = 1
    /\ cache.misses = 2
    /\ cache.ret = NoBox
    /\ cache.boxes = Empty

\* C15: store on a HATCH leaves the cache contents as they are, and get on a
\* HATCH returns no box and counts a miss, also after a store for the entity
\* and also with UUID keys
C15_HatchNeverCached ==
    [][/\ (cache'.op = "store" /\ cache'.args[1].dxftype = "HATCH")
          => cache'.boxes = cache.boxes
       /\ (cache'.op = "get" /\ cache'.args[1].dxftype = "HATCH")
          => (/\ cache'.ret = NoBox
              /\ cache'.misses = cache.misses + 1
              /\ cache'.hits = cache.hits)]_vars

C15_Witness ==
    /\ cache.op = "get"
    /\ cache.args[1].id = "vhatch"
    /\ cache.use_uuid
    /\ cache.stored["vhatch"] # NoBox
    /\ cache.stored["hatch"] # NoBox
    /\ cache.misses = 1

\* C16: invalidate removes the entry of every given entity that has one,
\* raises nothing for the entities without entry, keeps all other entries
\* and does not change hits and misses
C16_Invalidate ==
    [][(cache'.op = "invalidate")
       => LET given == {get_key(cache, cache'.args[k]) : k \in 1..Len(cache'.args)} IN
          /\ cache'.err = "none"
          /\ DOMAIN cache'.boxes = (DOMAIN cache.boxes) \ given
          /\ \A k \in DOMAIN cache'.boxes : cache'.boxes[k] = cache.boxes[k]
          /\ cache'.hits = cache.hits
          /\ cache'.misses = cache.misses]_vars

C16_Witness ==
    /\ cache.op = "invalidate"
    /\ Len(cache.args) = 2
    /\ cache.args[1].id = "line"
    /\ cache.args[2].id = "vhatch"
    /\ DOMAIN cache.boxes = {"uuid-3"}
    /\ cache.hits = 1

\* C17: a handle-less entity that is no HATCH is cached under its own UUID
\* when the cache uses UUIDs, so that store then get hits with the box of that
\* entity; without UUIDs store does nothing and every get misses
C17_HandleLess ==
    [][/\ (cache'.op = "store" /\ HandleLess(cache'.args[1]))
          => cache'.boxes = IF cache.use_uuid
                            THEN Put(cache.boxes, cache'.args[1].uuid, cache'.ret)
                            ELSE cache.boxes
       /\ (cache'.op = "get" /\ HandleLess(cache'.args[1]))
          => IF cache.use_uuid /\ cache.stored[cache'.args[1].id] # NoBox
             THEN /\ cache'.ret = cache.stored[cache'.args[1].id]
                  /\ cache'.hits = cache.hits + 1
                  /\ cache'.misses = cache.misses
             ELSE /\ cache'.ret = NoBox
                  /\ cache'.hits = cache.hits
                  /\ cache'.misses = cache.misses + 1]_vars

C17_Witness ==
    /\ cache.op = "get"
    /\ cache.args[1].id = "virtual"
    /\ cache.use_uuid
    /\ cache.ret = "box1"
    /\ cache.stored["virtual0"] = "box2"
    /\ cache.boxes = ("uuid-3" :> "box1" @@ "uuid-4" :> "box2")

\* run() has returned the entities of a multileader with invisible leaders
InvisibleRendered == render.returned /\ render.leader_type = 0

\* the leader lines of the result and its arrows
LinesOf(entities) == SelectSeq(entities, LAMBDA x : x.dxftype = "LINE")
ArrowsOf(entities) == SelectSeq(entities, LAMBDA x : x.dxftype = "INSERT" /\ x.name # NoName)

\* C18 as stated: run on a multileader of leader type 0 returns an empty list,
\* with or without content
C18_InvisibleIsEmpty == InvisibleRendered => render.entities = <<>>

\* C18: run on a multileader of leader type 0 returns no leader entity: the
\* list is empty without content or at a scale near zero, and holds the one
\* MTEXT or INSERT of the content otherwise
C18_InvisibleHasContentOnly ==
    InvisibleRendered =>
        render.entities =
            IF Abs(render.scale) <= SCALE_EPS THEN <<>>
            ELSE IF render.context.mtext THEN <<Entity("MTEXT")>>
            ELSE IF render.context.block THEN <<Entity("INSERT")>>
            ELSE <<>>

C18_Witness ==
    /\ InvisibleRendered
    /\ render.context.leaders # <<>>
    /\ render.context.leaders[1].lines[1].vertices # <<>>
    /\ render.entities = <<Entity("MTEXT")>>

\* C19: run on a multileader with abs(scale) not above 1e-9 returns an empty
\* list, whatever its content and leaders
C19_NearZeroScaleIsEmpty ==
    (render.returned /\ Abs(render.scale) <= SCALE_EPS) => render.entities = <<>>

C19_Witness ==
    /\ render.returned
    /\ render.scale = SCALE_EPS
    /\ render.context.mtext
    /\ render.leader_type = 1
    /\ render.has_dogleg = 1
    /\ render.context.leaders # <<>>
    /\ Len(render.context.leaders[1].lines[1].vertices) = 2
    /\ render.entities = <<>>

\* run() was called for a straight leader with dogleg: one leader with one
\* line of at least one vertex
StraightWithDogleg ==
    /\ render.returned \/ render.err # "none"
    /\ render.leader_type = 1
    /\ render.has_dogleg # 0
    /\ Abs(render.scale) > SCALE_EPS
    /\ Len(render.context.leaders) = 1
    /\ Len(render.context.leaders[1].lines) = 1
    /\ Len(render.context.leaders[1].lines[1].vertices) >= 1

\* C20: a straight leader with dogleg renders to one dogleg line, one line for
\* each pair of consecutive vertices of the vertex chain (the k line vertices,
\* the last leader point and the end of the dogleg) and one arrow INSERT at
\* the first vertex; the first line starts at the first vertex moved by the
\* arrow length towards the second vertex of the chain
C20_StraightWithDogleg ==
    StraightWithDogleg =>
        LET leader == render.context.leaders[1]
            vertices == leader.lines[1].vertices
            second == IF Len(vertices) >= 2 THEN vertices[2]
                      ELSE leader.last_leader_point
            lines == LinesOf(render.entities)
            arrows == ArrowsOf(render.entities)
        IN  /\ render.returned
            /\ Len(lines) = 1 + (Len(vertices) + 1)
            /\ lines[1].start = leader.last_leader_point
            /\ Len(arrows) = 1
            /\ arrows[1].insert = vertices[1]
            /\ lines[2].start =
                   vadd(vertices[1],
                        times(normalize(vsub(second, vertices[1]), Unit),
                              arrow_length(arrows[1].name, render.context.arrowhead_size)))
            /\ \A i \in 2..(Len(lines) - 1) : lines[i].end = lines[i + 1].start

\* the attribute of the last lookup has a bit in the override table and the
\* bit is set in the flags of the MULTILEADER
LookupOverridden ==
    /\ style.attrib_name \in OverrideAttribs
    /\ HasBit(style.self.property_override_flags, OVERRIDE_FLAG[style.attrib_name])

\* the value the style has for the attribute of the last lookup
LookupStyleValue ==
    IF style.attrib_name = "block_scale_vector"
    THEN IF "block_scale_x" \in DOMAIN style.self.style_dxf
         THEN <<BlockScale.block_scale_x, BlockScale.block_scale_y, BlockScale.block_scale_z>>
         ELSE <<1, 1, 1>>
    ELSE style.self.style_dxf[style.attrib_name]

\* the MULTILEADER stores a value for the attribute of the last lookup
LookupStored ==
    style.attrib_name = "char_height" \/ style.attrib_name \in DOMAIN style.self.mleader_dxf

\* C21 as stated: an attribute with a set bit resolves to the value stored in
\* the MULTILEADER, every other attribute to the value of the style
C21_OverrideWins ==
    style.attrib_name # NoName =>
        IF LookupOverridden
        THEN /\ LookupStored
             /\ style.value = IF style.attrib_name = "char_height" THEN style.self.char_height
                              ELSE style.self.mleader_dxf[style.attrib_name]
        ELSE style.value = LookupStyleValue

\* C21: an attribute with a set bit resolves to the value stored in the
\* MULTILEADER when it stores one and to the value of the style when it stores
\* none; an attribute with a clear bit or without a bit resolves to the value
\* of the style
C21_OverrideWinsWhenStored ==
    style.attrib_name # NoName =>
        IF LookupOverridden /\ LookupStored
        THEN style.value = IF style.attrib_name = "char_height" THEN style.self.char_height
                           ELSE style.self.mleader_dxf[style.attrib_name]
        ELSE style.value = LookupStyleValue

C21_Witness ==
    /\ style.attrib_name = "leader_type"
    /\ LookupOverridden
    /\ style.self.style_dxf["leader_type"] = 2
    /\ style.value = 7

\* C22: use_mtext_default_content is the value of the style, whatever the
\* override flags of the MULTILEADER are
C22_DefaultContentFromStyle ==
    style.self.use_mtext_default_content
        <=> style.self.style_dxf["use_mtext_default_content"] = 1

\* n over i
RECURSIVE Binomial(_, _)
Binomial(n, i) ==
    IF i = 0 \/ i = n THEN 1 ELSE Binomial(n - 1, i - 1) + Binomial(n - 1, i)

RECURSIVE Power(_, _)
Power(b, e) == IF e = 0 THEN 1 ELSE b * Power(b, e - 1)

\* the numerator (over TDen^n) of the point at t of the curve of degree n with
\* the control points points: the sum of the Bernstein terms from i on
RECURSIVE Bernstein(_, _, _)
Bernstein(points, t, i) ==
    LET n == Len(points) - 1
    IN  IF i > n THEN 0
        ELSE Binomial(n, i) * Power(TDen - t, n - i) * Power(t, i) * points[i + 1][1]
             + Bernstein(points, t, i + 1)

SplitDone == curves.op = "split_bezier" /\ curves.done

\* C23: split_bezier with 2 or more control points and t in [0, 1] returns two
\* sequences as long as the input; the left one starts at the first control
\* point and both end in the same point, the point of the curve at t; with
\* fewer points or another t it raises ValueError and returns nothing
C23_SplitBezier ==
    SplitDone =>
        LET control_points == curves.args[1]
            t == curves.args[2]
            count == Len(control_points)
        IN  IF count >= 2 /\ 0 <= t /\ t <= TDen
            THEN /\ curves.err = "none"
                 /\ Len(curves.ret[1]) = count
                 /\ Len(curves.ret[2]) = count
                 /\ curves.ret[1][1] = control_points[1]
                 /\ curves.ret[1][count] = curves.ret[2][count]
                 /\ curves.ret[1][count] =
                        <<Bernstein(control_points, t, 0), Power(TDen, count - 1)>>
            ELSE /\ curves.err = "ValueError"
                 /\ curves.ret = NoResult

\* a cubic curve split at t = 1/4 between two different points
C23_Witness ==
    /\ SplitDone
    /\ curves.err = "none"
    /\ curves.args[2] = 1
    /\ curves.args[1] = <<<<0, 1>>, <<3, 1>>, <<3, 1>>, <<0, 1>>>>
    /\ curves.ret[1][4] = <<108, 64>>

BSplineDone == curves.op = "bezier_to_bspline" /\ curves.done

\* C24: bezier_to_bspline of n >= 1 curves returns a B-spline of order 4 with
\* 3n + 1 control points and the 3n + 5 knots 0,0,0,0, 1,1,1, ..., n-1,n-1,n-1,
\* n,n,n,n; without curves it raises ValueError
C24_BezierToBSpline ==
    BSplineDone =>
        LET n == Len(curves.args[1])
        IN  IF n >= 1
            THEN /\ curves.err = "none"
                 /\ curves.ret.order = 4
                 /\ Len(curves.ret.control_points) = 3 * n + 1
                 /\ Len(curves.ret.knots) = Len(curves.ret.control_points) + 4
                 /\ \A i \in 1..(3 * n + 5) :
                        curves.ret.knots[i] = IF i <= 4 THEN 0
                                              ELSE IF i > 3 * n + 1 THEN n
                                              ELSE (i - 5) \div 3 + 1
            ELSE /\ curves.err = "ValueError"
                 /\ curves.ret = NoResult

\* a quadratic and a cubic curve
C24_Witness ==
    /\ BSplineDone
    /\ curves.args[1] = <<<<0, 3, 0>>, <<0, 3, 3, 0>>>>
    /\ curves.ret.control_points = <<0, 2, 2, 0, 3, 3, 0>>
    /\ curves.ret.knots = <<0, 0, 0, 0, 1, 1, 1, 2, 2, 2, 2>>

\* run() was called for one leader with one leader line and visible leader
\* lines at a scale that is not near zero
OneLeaderLineRun ==
    /\ render.returned \/ render.err # "none"
    /\ render.leader_type # 0
    /\ Abs(render.scale) > SCALE_EPS
    /\ Len(render.context.leaders) = 1
    /\ Len(render.context.leaders[1].lines) = 1

\* the vertex chain of that leader line
ChainOfRun ==
    get_leader_vertices(render.context.leaders[1],
                        render.context.leaders[1].lines[1].vertices,
                        render.has_dogleg # 0 /\ render.leader_type # 2)

SplinesOf(entities) == SelectSeq(entities, LAMBDA x : x.dxftype = "SPLINE")

\* C25: a leader line whose first two chain vertices are equal is rendered
\* without error, with the X axis as arrow direction: the line or spline
\* starts at the first vertex moved by the arrow length along the X axis
C25_DegenerateArrowDirection ==
    (/\ OneLeaderLineRun
     /\ Len(ChainOfRun) >= 2
     /\ ChainOfRun[1] = ChainOfRun[2])
    => /\ render.returned
       /\ render.err = "none"
       /\ Len(ArrowsOf(render.entities)) = 1
       /\ LET start == vadd(ChainOfRun[1], <<render.context.arrowhead_size, 0>>)
          IN  IF render.leader_type = 1
              THEN \E i \in 1..Len(render.entities) :
                       /\ render.entities[i].dxftype = "LINE"
                       /\ render.entities[i].start = start
                       /\ render.entities[i].end = ChainOfRun[2]
              ELSE /\ Len(SplinesOf(render.entities)) = 1
                   /\ SplinesOf(render.entities)[1].fit_points[1] = start

\* C26: a leader line of a spline leader (type 2) with a vertex chain of two
\* or more vertices renders to one arrow INSERT and one SPLINE, without any
\* LINE; the chain is the line vertices and the end of the dogleg, without
\* the last leader point, also when has_dogleg is set
C26_SplineLeader ==
    (OneLeaderLineRun /\ render.leader_type = 2)
    => LET vertices == render.context.leaders[1].lines[1].vertices
           arrows == ArrowsOf(render.entities)
           splines == SplinesOf(render.entities)
       IN  /\ render.returned
           /\ LinesOf(render.entities) = <<>>
           /\ IF Len(vertices) + 1 >= 2
              THEN /\ Len(arrows) = 1
                   /\ arrows[1].insert = vertices[1]
                   /\ Len(splines) = 1
                   /\ Len(splines[1].fit_points) = Len(vertices) + 1
                   /\ splines[1].fit_points[Len(vertices) + 1] =
                          vadd(render.context.leaders[1].last_leader_point,
                               get_dogleg_vector(render.context.leaders[1]))
              ELSE arrows = <<>> /\ splines = <<>>

\* C27: the names of _layouts are the names of the layout management table,
\* and the table maps each name to the handle of the LAYOUT object of the
\* layout stored under that name, after every call, failed calls included
C27_TablesInStep ==
    /\ DOMAIN layouts = DOMAIN table
    /\ \A name \in DOMAIN layouts : table[name] = layouts[name].layout_handle

\* a failed call after a layout was created and another one deleted
C27_Witness ==
    /\ last.err # "none"
    /\ "Layout1" \notin DOMAIN table
    /\ "A" \in DOMAIN table
    /\ table["A"] = layouts["A"].layout_handle
    /\ Cardinality(DOMAIN layouts) = 2

\* C28: under new() without taborder and delete() the taborder values of the
\* layouts stay pairwise distinct
C28_TabordersDistinct ==
    \A n1 \in DOMAIN layouts, n2 \in DOMAIN layouts :
        n1 # n2 => taborder(State, layouts[n1]) # taborder(State, layouts[n2])

====
